---- MODULE Spec2Model ----
(***************************************************************************)
(* Model of MCPToolSearchManager (src/MCP-Tool-Search-Tool/                *)
(* mcp_tool_search.py): sequential connection of the configured MCP        *)
(* servers, registration of their tools under namespaced names, dispatch   *)
(* of a tool call to the owning session, and cleanup.                      *)
(*                                                                         *)
(* Strings are sequences of one-character strings, so that the f-string    *)
(* "{server_name}_{tool.name}" is a real concatenation.  A session object  *)
(* and a stdio_client context are identified by the index, in the          *)
(* configuration, of the connect attempt that created them.  The MCP       *)
(* client library and the servers are the environment: every await has a   *)
(* set of outcomes (a value, or an exception of some class).               *)
(***************************************************************************)
EXTENDS Integers, Sequences, FiniteSets, TLC

\* ------------------------------------------------------------- bounds
MaxServers == 2
MaxTools == 2
MaxStrLen == 4
MaxTurns == 2
MaxBlocks == 2
MaxItems == 2

\* ------------------------------------------------------------- inputs
ServerNames == { <<"a">>, <<"a", "_", "b">>, <<"c">> }
ToolNames == { <<"x">>, <<"b", "_", "x">> }
ArgValues == { "p", "q" }

\* The sequences of at most n distinct elements of S.
DistinctSeqs(S, n) ==
    UNION { { s \in [1..k -> S] : \A p, q \in 1..k : p # q => s[p] # s[q] } :
            k \in 0..n }

\* Configurations: server entries with distinct names (a ServerDefinition's
\* name is unique), in any order.
Configs == DistinctSeqs(ServerNames, MaxServers)
\* The configurations the dispatch specification starts from: the first
\* servers of one order.
ServerOrder == << <<"a">>, <<"a", "_", "b">>, <<"c">> >>
DispatchConfigs ==
    { SubSeq(ServerOrder, 1, n) : n \in { m \in 0..MaxServers : m <= Len(ServerOrder) } }
\* The configurations main is run with: none, one or two servers.
MainConfigs == { << >>, << <<"a">> >>, << <<"a">>, <<"a", "_", "b">> >> }
\* What a server may answer to list_tools: its tools, with distinct names.
ToolLists == DistinctSeqs(ToolNames, MaxTools)

\* The strings a configuration file may hold as an env value or an argument:
\* all strings of at most MaxStrLen characters over the placeholder syntax
\* and one letter.
Alphabet == { "$", "{", "}", "V" }
LoadStrings == UNION { [1..k -> Alphabet] : k \in 0..MaxStrLen }
\* os.environ: the variable V is set, or nothing is.
Environs == { << >>, <<"V">> :> <<"v">> }

\* A well-formed server entry of the file, with no env and no args.
ServerEntry(server_name) == [ name |-> server_name, command |-> <<"c", "m", "d">> ]
EntriesOf(names) == [ i \in 1..Len(names) |-> ServerEntry(names[i]) ]
\* The name of every entry, << >> standing for an entry without 'name'.
NamesOf(es) ==
    [ i \in 1..Len(es) |-> IF "name" \in DOMAIN es[i] THEN es[i].name ELSE << >> ]

\* The files read by the loading specification: one server entry, without
\* or with an env override K and without or with arguments.
LoadDocuments ==
    { << ServerEntry(<<"a">>) >> }
    \cup { << ServerEntry(<<"a">>) @@ ("env" :> (<<"K">> :> v)) >> : v \in LoadStrings }
    \cup { << ServerEntry(<<"a">>) @@ ("args" :> << v, <<"V">> >>) >> : v \in LoadStrings }
    \cup { << ServerEntry(<<"a">>) @@ ("env" :> (<<"K">> :> v))
                                   @@ ("args" :> << <<"$", "{", "V", "}">>, v, <<"V">> >>) >> :
            v \in LoadStrings }

\* The files read by the configuration specification: one well-formed, the
\* others with a duplicated name, an entry without 'command', or an entry
\* without 'name'.
ConfigDocuments ==
    { << ServerEntry(<<"a">>), ServerEntry(<<"c">>) >>,
      << ServerEntry(<<"a">>), ServerEntry(<<"a">>) >>,
      << [ name |-> <<"a">> ], ServerEntry(<<"c">>) >>,
      << ServerEntry(<<"a">>), [ command |-> <<"c", "m", "d">> ] >>,
      << [ command |-> <<"c", "m", "d">> ] >> }

\* ------------------------------------------------------------- state
VARIABLES
    document,        \* the 'mcp_servers' list of the configuration file, as json.load gives it
    environ,         \* os.environ: variable name -> value
    entries,         \* self.config['mcp_servers']: the server entries after _load_config
    config,          \* the names of entries, in order
    defer_loading,   \* self.defer_loading
    use_toon,        \* self.use_toon
    sessions,        \* self.sessions: server name -> session
    transports,      \* self.transports: server name -> stdio context
    all_tools,       \* self.all_tools: sequence of tool definitions
    tool_to_server,  \* self.tool_to_server: namespaced name -> binding
    pc,              \* where the single control flow stands
    idx,             \* initialize_all_servers: index of the current server_config
    exc,             \* connect_to_server: the exception being handled at line 159
    cpos,            \* cleanup: position in the dict being iterated
    tstate,          \* per attempt: the stdio context is "none", "open" or "closed"
    sstate,          \* per attempt: the ClientSession context, likewise
    connOut,         \* per attempt: how connect_to_server ended
    listOut,         \* per attempt: how fetch_tools_from_server ended
    reported,        \* per attempt: the tool names list_tools returned
    registered,      \* per attempt: the original names written to tool_to_server
    connectCalls,    \* per attempt: number of connect_to_server calls
    initState,       \* initialize_all_servers: "new", "running", "returned", "raised"
    cleanupCalls,    \* number of cleanup calls started, counted up to 2
    cleanupResult,   \* how the last cleanup call ended: "none", "running", "returned", "raised"
    tdLog,           \* the teardowns (__aexit__ calls) the last cleanup call issued
    tdRaised,        \* whether an __aexit__ that cleanup called on an open context raised
    call,            \* the last call of execute_tool or create_tool_library_with_search
    ret,             \* what that call produced
    mpc,             \* main: where it stands ("off": main is not running)
    max_turns,       \* run_mcp_tool_search_conversation: its max_turns
    turn,            \* run_mcp_tool_search_conversation: the loop variable
    blocks,          \* content blocks of the current response still to handle
    apiRequests,     \* number of messages.create requests made
    mainOut,         \* main: what it reported
    response,        \* response.content of the current tool_use response: the blocks reached
    tool_results,    \* tool_results of the current response (line 435)
    executed,        \* ids of the blocks of the current response passed to execute_tool
    lastMsg,         \* messages[-1]
    lastOutcome      \* what the last messages.create request gave

vars == << document, environ, entries, config, defer_loading, use_toon, sessions, transports, all_tools,
           tool_to_server, pc, idx, exc, cpos, tstate, sstate, connOut, listOut,
           reported, registered, connectCalls, initState, cleanupCalls,
           cleanupResult, tdLog, tdRaised, call, ret, mpc, max_turns, turn, blocks,
           apiRequests, mainOut, response, tool_results, executed, lastMsg,
           lastOutcome >>

mgrVars == << sessions, transports, all_tools, tool_to_server >>
cfgVars == << document, environ, entries, config, defer_loading, use_toon >>
handleVars == << tstate, sstate >>
initGhost == << connOut, listOut, reported, registered, connectCalls >>
cleanupVars == << cpos, cleanupCalls, cleanupResult, tdLog, tdRaised >>
execVars == << call, ret >>
convVars == << response, tool_results, executed, lastMsg, lastOutcome >>
mainVars == << mpc, max_turns, turn, blocks, apiRequests, mainOut, convVars >>

Attempts == 1..Len(config)
NoCall == [kind |-> "none"]
NoRet == [kind |-> "none"]

\* ------------------------------------------------------------- exceptions
\* Python's class hierarchy, as far as the handlers tell the classes apart:
\* TimeoutError < Exception < BaseException, KeyboardInterrupt < BaseException.
\* "KeyboardInterrupt" stands for the user interrupt (with asyncio it reaches
\* the coroutine as KeyboardInterrupt or CancelledError, neither an Exception).
IsInstance(e, cls) ==
    CASE cls = "BaseException" -> TRUE
      [] cls = "Exception" -> e \in { "Exception", "TimeoutError" }
      [] cls = "TimeoutError" -> e = "TimeoutError"
      [] cls = "KeyboardInterrupt" -> e = "KeyboardInterrupt"
      [] OTHER -> FALSE

\* What each awaited call of connect_to_server may do.
StdioEnterOutcomes == { "ok", "Exception", "TimeoutError", "KeyboardInterrupt" }
SessionEnterOutcomes == { "ok", "Exception", "KeyboardInterrupt" }
HandshakeOutcomes == { "ok", "TimeoutError", "Exception", "KeyboardInterrupt" }
ExitOutcomes == { "ok", "Exception", "KeyboardInterrupt" }

\* The state of a context manager after __aexit__ was called on it, whether
\* the call returned or raised: the teardown was issued.
AfterExit(o) == "closed"

\* ------------------------------------------------------------- namespacing
\* f"{server_name}_{tool.name}"
Namespaced(server_name, tool_name) == server_name \o <<"_">> \o tool_name

\* ------------------------------------------------------------- _load_config
\* value.startswith('${') and value.endswith('}') (lines 78, 86).
IsPlaceholder(value) ==
    /\ Len(value) >= 2
    /\ value[1] = "$"
    /\ value[2] = "{"
    /\ value[Len(value)] = "}"

\* value[2:-1] (lines 79, 85).
PlaceholderVarKeepsBrace(value) == SubSeq(value, 3, Len(value))
PlaceholderVar(value) == SubSeq(value, 3, Len(value) - 1)

\* os.getenv(env_var, '') (lines 80, 85).
Getenv(env_var) == IF env_var \in DOMAIN environ THEN environ[env_var] ELSE << >>

\* What lines 78-80 and 85-87 make of one string.
Substitute(value) ==
    IF IsPlaceholder(value) THEN Getenv(PlaceholderVar(value)) ELSE value

\* The body of the loop of line 75 for one server entry: its env values
\* (lines 76-80) and its args (lines 83-88) are substituted where the key is
\* there, the other keys are left alone.
LoadServer(server) ==
    [ key \in DOMAIN server |->
        CASE key = "env" ->
                [ k \in DOMAIN server[key] |-> Substitute(server[key][k]) ]
          [] key = "args" ->
                [ j \in 1..Len(server[key]) |-> Substitute(server[key][j]) ]
          [] OTHER -> server[key] ]

\* _load_config (lines 68-90) on the servers of the file.
LoadConfig(servers) == [ i \in 1..Len(servers) |-> LoadServer(servers[i]) ]

\* Nothing has run on the manager yet.
Fresh ==
    /\ sessions = << >>
    /\ transports = << >>
    /\ all_tools = << >>
    /\ tool_to_server = << >>
    /\ idx = 0
    /\ exc = "none"
    /\ cpos = 0
    /\ tstate = [a \in Attempts |-> "none"]
    /\ sstate = [a \in Attempts |-> "none"]
    /\ connOut = [a \in Attempts |-> "none"]
    /\ listOut = [a \in Attempts |-> "none"]
    /\ reported = [a \in Attempts |-> << >>]
    /\ registered = [a \in Attempts |-> << >>]
    /\ connectCalls = [a \in Attempts |-> 0]
    /\ initState = "new"
    /\ cleanupCalls = 0
    /\ cleanupResult = "none"
    /\ tdLog = << >>
    /\ tdRaised = FALSE
    /\ call = NoCall
    /\ ret = NoRet

\* The manager after __init__ (lines 56-64).
Constructed == Fresh /\ pc = "new"

\* main at position p, no conversation started.
MainAt(p) ==
    /\ mpc = p
    /\ max_turns = 0
    /\ turn = 0
    /\ blocks = 0
    /\ apiRequests = 0
    /\ mainOut = "none"
    /\ response = << >>
    /\ tool_results = << >>
    /\ executed = << >>
    /\ lastMsg = [ role |-> "none" ]
    /\ lastOutcome = "none"

\* __init__ has loaded the file (line 56): a file of well-formed entries for
\* the servers names, without placeholders.
Loaded(names) ==
    /\ document = EntriesOf(names)
    /\ environ = << >>
    /\ entries = LoadConfig(document)
    /\ config = NamesOf(entries)

Init ==
    /\ \E names \in Configs : Loaded(names)
    /\ defer_loading = FALSE
    /\ use_toon = FALSE
    /\ Constructed
    /\ MainAt("off")

InitDispatch ==
    /\ \E names \in DispatchConfigs : Loaded(names)
    /\ defer_loading = FALSE
    /\ use_toon = TRUE
    /\ Constructed
    /\ MainAt("off")

\* main has parsed its arguments and constructed the manager (lines 490-528)
\* and enters its try block.
InitMain ==
    /\ \E names \in MainConfigs : Loaded(names)
    /\ defer_loading = FALSE
    /\ use_toon \in BOOLEAN
    /\ Constructed
    /\ MainAt("try")

\* A manager constructed for one configured server, for the replies of its
\* tools.
InitReply ==
    /\ Loaded(<< << "a" >> >>)
    /\ defer_loading = FALSE
    /\ use_toon \in BOOLEAN
    /\ Constructed
    /\ MainAt("off")

\* Before MCPToolSearchManager(config_path) is called, with one of the files
\* docs at config_path and one of the environments envs.
Unconstructed(docs, envs) ==
    /\ document \in docs
    /\ environ \in envs
    /\ entries = << >>
    /\ config = << >>
    /\ defer_loading \in BOOLEAN
    /\ use_toon = FALSE
    /\ Fresh
    /\ pc = "init"
    /\ MainAt("off")

InitLoad == Unconstructed(LoadDocuments, Environs)

InitConfig == Unconstructed(ConfigDocuments, { << >> })

\* __init__ (lines 46-66): the file is loaded, whatever its entries are, and
\* the manager's collections are created empty.
Construct ==
    /\ pc = "init"
    /\ entries' = LoadConfig(document)
    /\ config' = NamesOf(entries')
    /\ pc' = "new"
    /\ tstate' = [a \in 1..Len(document) |-> "none"]
    /\ sstate' = [a \in 1..Len(document) |-> "none"]
    /\ connOut' = [a \in 1..Len(document) |-> "none"]
    /\ listOut' = [a \in 1..Len(document) |-> "none"]
    /\ reported' = [a \in 1..Len(document) |-> << >>]
    /\ registered' = [a \in 1..Len(document) |-> << >>]
    /\ connectCalls' = [a \in 1..Len(document) |-> 0]
    /\ UNCHANGED << document, environ, defer_loading, use_toon, mainVars, mgrVars,
                    idx, exc, initState, cleanupVars, execVars >>

\* ------------------------------------------------------------- dicts
\* d[key] = value on a Python dict: an existing key keeps its place, its
\* value is replaced.
DictSet(d, key, value) == (key :> value) @@ d

\* ------------------------------------------------------------- connect_to_server
\* The handlers of the inner try (lines 153-162), by the class of the
\* exception raised in its body.
InnerHandler(e) ==
    IF IsInstance(e, "TimeoutError") THEN "timeout_cleanup"
    ELSE IF IsInstance(e, "Exception") THEN "error_cleanup"
    ELSE "propagate"

\* The handlers of the outer try (lines 164-172).
OuterHandlerReraisesAll(e) == "reraise"
OuterHandlerReturnsNone(e) == "return_none"
OuterHandler(e) ==
    IF IsInstance(e, "KeyboardInterrupt") THEN "reraise"
    ELSE IF IsInstance(e, "Exception") THEN "return_none"
    ELSE "reraise"

\* connect_to_server returns None (lines 158, 172); initialize_all_servers
\* skips the server (line 225) and goes on with the next one.
ConnectRetries(outcome) ==
    /\ connOut' = [connOut EXCEPT ![idx] = outcome]
    /\ idx' = idx
    /\ pc' = "loop"
    /\ exc' = "none"
    /\ UNCHANGED initState
ConnectReturnsNone(outcome) ==
    /\ connOut' = [connOut EXCEPT ![idx] = outcome]
    /\ idx' = idx + 1
    /\ pc' = "loop"
    /\ exc' = "none"
    /\ UNCHANGED initState

\* Exception e leaves connect_to_server (line 166) and, initialize_all_servers
\* having no handler, initialize_all_servers too.
ConnectRaises(e) ==
    /\ connOut' = [connOut EXCEPT ![idx] =
                      IF e = "KeyboardInterrupt" THEN "interrupted" ELSE "raised"]
    /\ initState' = "raised"
    /\ pc' = "idle"
    /\ exc' = "none"
    /\ UNCHANGED idx

\* Exception e reaches the outer try; outcome is what the attempt is recorded
\* as when it ends in None ("interrupt_lost" when the exception turned into
\* None was a KeyboardInterrupt).
ToOuterHandler(e, outcome) ==
    IF OuterHandler(e) = "return_none"
    THEN ConnectReturnsNone(IF e = "KeyboardInterrupt" THEN "interrupt_lost"
                            ELSE outcome)
    ELSE ConnectRaises(e)

\* initialize_all_servers is called (lines 213-219).
InitializeStart ==
    /\ pc = "new"
    /\ pc' = "loop"
    /\ idx' = 1
    /\ initState' = "running"
    /\ UNCHANGED << cfgVars, mainVars, mgrVars, exc, handleVars, initGhost, cleanupVars, execVars >>

\* What building the server parameters and the stdio_client context may do
\* (lines 106-125): server_config['command'] raises KeyError when the entry
\* has no 'command'; the library may reject a parameter.
ParamOutcomes(server_config) ==
    IF "command" \in DOMAIN server_config THEN { "ok", "Exception" }
    ELSE { "Exception" }

\* The for loop of lines 221-229 takes the next server_config.  Without a
\* 'name', server_config['name'] (line 222) raises KeyError out of
\* initialize_all_servers, before connect_to_server is called.  Otherwise
\* connect_to_server is called and builds the server parameters and the
\* stdio_client context (lines 103-125): an exception there is in the outer
\* try only.
ConnectStart ==
    /\ pc = "loop"
    /\ idx <= Len(config)
    /\ IF "name" \notin DOMAIN entries[idx]
       THEN /\ initState' = "raised"
            /\ pc' = "idle"
            /\ UNCHANGED << idx, exc, connOut, connectCalls >>
       ELSE /\ connectCalls' = [connectCalls EXCEPT ![idx] = @ + 1]
            /\ \E o \in ParamOutcomes(entries[idx]) :
                  IF o = "ok"
                  THEN /\ pc' = "stdio_enter"
                       /\ UNCHANGED << idx, exc, connOut, initState >>
                  ELSE ToOuterHandler(o, "failed")
    /\ UNCHANGED << cfgVars, mainVars, mgrVars, handleVars, listOut, reported, registered,
                    cleanupVars, execVars >>

\* Exception e is raised in the body of the inner try (lines 133-151).
InInnerTry(e) ==
    CASE InnerHandler(e) = "timeout_cleanup" ->
            /\ pc' = "timeout_exit"
            /\ exc' = e
            /\ UNCHANGED << idx, connOut, initState >>
      [] InnerHandler(e) = "error_cleanup" ->
            /\ pc' = "error_exit"
            /\ exc' = e
            /\ UNCHANGED << idx, connOut, initState >>
      [] OTHER -> ToOuterHandler(e, "failed")

\* Exception e is raised by stdio_context.__aenter__() (line 131): the call
\* is outside the inner try and outside the timeout, so whatever the class
\* of e only the outer handlers see it.
StdioEnterRaisesInInnerTry(e) == InInnerTry(e)
StdioEnterRaises(e) == ToOuterHandler(e, "failed")

\* await stdio_context.__aenter__() (line 131), outside the inner try.
StdioEnter ==
    /\ pc = "stdio_enter"
    /\ \E o \in StdioEnterOutcomes :
          IF o = "ok"
          THEN /\ tstate' = [tstate EXCEPT ![idx] = "open"]
               /\ pc' = "session_enter"
               /\ UNCHANGED << idx, exc, connOut, initState >>
          ELSE /\ StdioEnterRaises(o)
               /\ UNCHANGED tstate
    /\ UNCHANGED << cfgVars, mainVars, mgrVars, sstate, listOut, reported, registered,
                    connectCalls, cleanupVars, execVars >>

\* session = ClientSession(stdio, write); await session.__aenter__()
\* (lines 135-139).
SessionEnter ==
    /\ pc = "session_enter"
    /\ \E o \in SessionEnterOutcomes :
          IF o = "ok"
          THEN /\ sstate' = [sstate EXCEPT ![idx] = "open"]
               /\ pc' = "handshake"
               /\ UNCHANGED << idx, exc, connOut, initState >>
          ELSE /\ InInnerTry(o)
               /\ UNCHANGED sstate
    /\ UNCHANGED << cfgVars, mainVars, mgrVars, tstate, listOut, reported, registered,
                    connectCalls, cleanupVars, execVars >>

\* with anyio.fail_after(timeout): await session.initialize() (lines 142-145);
\* on success the context is stored and the session returned (lines 147-151),
\* and initialize_all_servers stores the session (lines 225-227).
Handshake ==
    /\ pc = "handshake"
    /\ \E o \in HandshakeOutcomes :
          IF o = "ok"
          THEN /\ transports' = DictSet(transports, config[idx], idx)
               /\ sessions' = DictSet(sessions, config[idx], idx)
               /\ connOut' = [connOut EXCEPT ![idx] = "ok"]
               /\ pc' = "list_tools"
               /\ UNCHANGED << idx, exc, initState >>
          ELSE /\ InInnerTry(o)
               /\ UNCHANGED << sessions, transports >>
    /\ UNCHANGED << cfgVars, mainVars, all_tools, tool_to_server, handleVars, listOut,
                    reported, registered, connectCalls, cleanupVars, execVars >>

\* except TimeoutError: await stdio_context.__aexit__(None, None, None);
\* return None (lines 153-158).  An exception of __aexit__ leaves the handler
\* for the outer try.
TimeoutTeardownSkipped(o) == tstate
TimeoutTeardown(o) == [tstate EXCEPT ![idx] = AfterExit(o)]

TimeoutExit ==
    /\ pc = "timeout_exit"
    /\ \E o \in ExitOutcomes :
          /\ tstate' = TimeoutTeardown(o)
          /\ IF o = "ok" THEN ConnectReturnsNone("timeout")
             ELSE ToOuterHandler(o, "timeout")
    /\ UNCHANGED << cfgVars, mainVars, mgrVars, sstate, listOut, reported, registered,
                    connectCalls, cleanupVars, execVars >>

\* except Exception as e: await stdio_context.__aexit__(None, None, None);
\* raise e (lines 159-162): e, or the exception of __aexit__, reaches the
\* outer try.
ErrorExit ==
    /\ pc = "error_exit"
    /\ \E o \in ExitOutcomes :
          /\ tstate' = [tstate EXCEPT ![idx] = AfterExit(o)]
          /\ IF o = "ok" THEN ToOuterHandler(exc, "failed")
             ELSE ToOuterHandler(o, "failed")
    /\ UNCHANGED << cfgVars, mainVars, mgrVars, sstate, listOut, reported, registered,
                    connectCalls, cleanupVars, execVars >>

\* ------------------------------------------------------------- fetch_tools_from_server
\* The tool object a server reports under a name: some tools come without a
\* description.
RemoteTool(tool_name) ==
    [ name |-> tool_name,
      description |-> IF tool_name = <<"x">> THEN << >> ELSE <<"d">>,
      inputSchema |-> tool_name ]

\* The tool definition of lines 191-196.
ToolDef(server_name, tool) ==
    [ name |-> Namespaced(server_name, tool.name),
      description |-> IF tool.description # << >> THEN tool.description
                      ELSE <<"T", "o", "o", "l", " ", "f", "r", "o", "m", " ">>
                           \o server_name
                           \o <<" ", "M", "C", "P", " ", "s", "e", "r", "v", "e", "r">>,
      input_schema |-> tool.inputSchema,
      defer_loading |-> defer_loading ]

\* The binding of lines 200-204.
BindingToFirstSession(server_name, tool, session) ==
    [ server |-> server_name, original_name |-> tool.name, session |-> 1 ]
Binding(server_name, tool, session) ==
    [ server |-> server_name, original_name |-> tool.name, session |-> session ]

\* The loop of lines 189-204 over the first n tools of names: the tools list
\* it builds, and tool_to_server after it.
ConvertedToolsReversed(server_name, names, n) ==
    [ k \in 1..n |-> ToolDef(server_name, RemoteTool(names[n + 1 - k])) ]
RECURSIVE ConvertedTools(_, _, _)
ConvertedTools(server_name, names, n) ==
    IF n = 0 THEN << >>
    ELSE Append(ConvertedTools(server_name, names, n - 1),
                ToolDef(server_name, RemoteTool(names[n])))

RECURSIVE RegisterTools(_, _, _, _, _)
RegisterTools(tts, server_name, session, names, n) ==
    IF n = 0 THEN tts
    ELSE LET tool == RemoteTool(names[n])
         IN  DictSet(RegisterTools(tts, server_name, session, names, n - 1),
                     Namespaced(server_name, tool.name),
                     Binding(server_name, tool, session))

\* What fetch_tools_from_server returns: tools (line 207), or [] from the
\* handler of line 209-211 when list_tools or a conversion raised.
FetchReturnsPartial(tools, raised) == tools
FetchReturns(tools, raised) == IF raised THEN << >> ELSE tools

ListOutcomes == { "ok", "Exception", "KeyboardInterrupt" }

\* tools = await self.fetch_tools_from_server(server_name, session);
\* self.all_tools.extend(tools) (lines 228-229, 185-211).  list_tools answers
\* names; the conversion of tool number failAt raises (0: none does), after
\* the tools before it were registered.
FetchTools ==
    /\ pc = "list_tools"
    /\ \E o \in ListOutcomes :
          CASE o = "KeyboardInterrupt" ->
                  /\ listOut' = [listOut EXCEPT ![idx] = "interrupted"]
                  /\ initState' = "raised"
                  /\ pc' = "idle"
                  /\ UNCHANGED << idx, all_tools, tool_to_server, reported, registered >>
            [] o = "Exception" ->
                  /\ listOut' = [listOut EXCEPT ![idx] = "failed"]
                  /\ all_tools' = all_tools \o FetchReturns(<< >>, TRUE)
                  /\ idx' = idx + 1
                  /\ pc' = "loop"
                  /\ UNCHANGED << initState, tool_to_server, reported, registered >>
            [] OTHER ->
                  \E names \in ToolLists, failAt \in 0..MaxTools :
                     /\ failAt <= Len(names)
                     /\ LET n == IF failAt = 0 THEN Len(names) ELSE failAt - 1
                        IN  /\ tool_to_server' =
                                  RegisterTools(tool_to_server, config[idx],
                                                sessions[config[idx]], names, n)
                            /\ all_tools' = all_tools \o
                                  FetchReturns(ConvertedTools(config[idx], names, n),
                                               failAt # 0)
                            /\ registered' = [registered EXCEPT ![idx] = SubSeq(names, 1, n)]
                     /\ reported' = [reported EXCEPT ![idx] = names]
                     /\ listOut' = [listOut EXCEPT ![idx] =
                                       IF failAt = 0 THEN "ok" ELSE "failed"]
                     /\ idx' = idx + 1
                     /\ pc' = "loop"
                     /\ UNCHANGED initState
    /\ UNCHANGED << cfgVars, mainVars, sessions, transports, exc, handleVars, connOut,
                    connectCalls, cleanupVars, execVars >>

\* The loop is over: initialize_all_servers prints its summary and returns
\* (lines 231-240).
InitializeReturns ==
    /\ pc = "loop"
    /\ idx > Len(config)
    /\ initState' = "returned"
    /\ pc' = "idle"
    /\ UNCHANGED << cfgVars, mainVars, mgrVars, idx, exc, handleVars, initGhost, cleanupVars,
                    execVars >>

\* ------------------------------------------------------------- execute_tool
\* The names execute_tool is called with: every name a configuration can
\* register, and one that none can.
ExecNames == { Namespaced(s, t) : s \in ServerNames, t \in ToolNames } \cup { <<"z">> }

\* _encode_result (lines 294-298): the data, in the configured encoding.
EncodeResult(data) == [ enc |-> IF use_toon THEN "toon" ELSE "json", data |-> data ]

\* tool_name in self.tool_to_server (line 253).
IsBoundAlways(tool_name) == TRUE
IsBound(tool_name) == tool_name \in DOMAIN tool_to_server

\* {"error": f"Unknown tool: {tool_name}"} (line 254).
UnknownTool(tool_name) == [ error |-> [ msg |-> "Unknown tool", arg |-> tool_name ] ]
\* {"success": False, "error": str(e)} (lines 289-292).
Failure(e) == [ success |-> FALSE, error |-> [ msg |-> e, arg |-> << >> ] ]
\* {"success": True, "result": ...} (lines 278-286).
Success(payload) == [ success |-> TRUE, result |-> payload ]

\* except Exception as e (line 288).
ExecuteCatchesNothing(e) == FALSE
ExecuteCatches(e) == IsInstance(e, "Exception")

\* What session.call_tool may do.  On a session whose two contexts are open
\* the server answers, or the call raises, or no answer ever comes (no read
\* timeout is set, line 135).  Once cleanup has exited both contexts the
\* client's streams are closed and the call raises.  After a teardown that
\* itself raised, what is left of the connection is not known.
CallToolOutcomes(session) ==
    IF sstate[session] = "closed" /\ tstate[session] = "closed" /\ ~ tdRaised
    THEN { "Exception" }
    ELSE { "ok", "Exception", "hang" }

\* The items of a reply's content: text items, which have a text attribute
\* (a JSON document "1" or the plain word "t"), and items of another type,
\* which have none.
ContentItems == { [ type |-> "text", text |-> << "1" >> ],
                  [ type |-> "text", text |-> << "t" >> ],
                  [ type |-> "image" ] }

\* The contents a reply can carry: at most MaxItems items.
Contents == UNION { [ 1..n -> ContentItems ] : n \in 0..MaxItems }

\* What a server answers to call_tool: a CallToolResult with text content,
\* whose isError flag says whether the tool failed on the server.
Replies == { [ hasContent |-> TRUE, isError |-> e,
               content |-> << [ type |-> "text", text |-> << "t" >> ] >> ] :
             e \in BOOLEAN }

\* Every shape of reply: an object without a content attribute, or a
\* CallToolResult with any content.
ReplyShapes ==
    { [ hasContent |-> FALSE, isError |-> e, content |-> << >> ] : e \in BOOLEAN }
    \cup { [ hasContent |-> TRUE, isError |-> e, content |-> c ] :
           e \in BOOLEAN, c \in Contents }

\* sep.join(parts), strings being sequences of characters.
RECURSIVE Join(_, _)
Join(parts, sep) ==
    IF parts = << >> THEN << >>
    ELSE IF Len(parts) = 1 THEN parts[1]
    ELSE parts[1] \o sep \o Join(Tail(parts), sep)

\* str(item) of a content item.
StrItem(item) ==
    IF "text" \in DOMAIN item
    THEN << "TextContent(" >> \o item.text \o << ")" >>
    ELSE << "ImageContent()" >>

\* str(result.content): the repr of a list (line 271).
StrContent(content) ==
    << "[" >> \o Join([ k \in 1..Len(content) |-> StrItem(content[k]) ], << ",", " " >>)
    \o << "]" >>

\* str(result) (line 284).
StrReply(reply) ==
    IF reply.hasContent
    THEN << "CallToolResult(" >> \o StrContent(reply.content)
         \o << ",", " ", IF reply.isError THEN "True" ELSE "False", ")" >>
    ELSE << "object(", IF reply.isError THEN "True" ELSE "False", ")" >>

\* json.loads(content_str) returns (line 274) rather than raises: of the
\* strings a reply can lead to, the number and the empty list are JSON.
JsonParses(content_str) == content_str \in { << "1" >>, << "[", "]" >> }

\* The value json.loads returns, and a plain string, as data of a result.
JsonValue(content_str) == [ kind |-> "json", of |-> content_str ]
StrValue(content_str) == [ kind |-> "str", of |-> content_str ]

\* The texts of the items that have a text attribute (lines 265-269).
TextParts(content) ==
    LET items == SelectSeq(content, LAMBDA item : "text" \in DOMAIN item)
    IN  [ k \in 1..Len(items) |-> items[k].text ]

\* The outcome execute_tool makes of a reply (lines 263-286); isError is not
\* read.
ReplyOutcome(reply) ==
    IF reply.hasContent
    THEN LET content_parts == TextParts(reply.content)
             content_str == IF content_parts # << >>
                            THEN Join(content_parts, << "\n" >>)
                            ELSE StrContent(reply.content)
             content_data == IF JsonParses(content_str)
                             THEN JsonValue(content_str)
                             ELSE StrValue(content_str)
         IN  Success(content_data)
    ELSE Success(StrValue(StrReply(reply)))

\* execute_tool up to its await (lines 253-261), for any name and arguments.
Dispatch ==
    \E tool_name \in ExecNames, arguments \in ArgValues :
          IF ~ IsBound(tool_name)
          THEN /\ call' = [ kind |-> "execute_tool", name |-> tool_name,
                            args |-> arguments, calls |-> << >> ]
               /\ ret' = [ kind |-> "returned", value |-> EncodeResult(UnknownTool(tool_name)) ]
               /\ pc' = "idle"
          ELSE IF tool_name \notin DOMAIN tool_to_server
          THEN \* self.tool_to_server[tool_name] raises KeyError (line 256)
               /\ call' = [ kind |-> "execute_tool", name |-> tool_name,
                            args |-> arguments, calls |-> << >> ]
               /\ ret' = [ kind |-> "raised", exc |-> "Exception" ]
               /\ pc' = "idle"
          ELSE LET tool_info == tool_to_server[tool_name]
               IN  /\ call' = [ kind |-> "execute_tool", name |-> tool_name,
                                args |-> arguments,
                                calls |-> << [ session |-> tool_info.session,
                                               name |-> tool_info.original_name,
                                               args |-> arguments ] >> ]
                   /\ ret' = [ kind |-> "pending" ]
                   /\ pc' = "call_tool"

\* execute_tool is called on the manager.
ExecuteTool ==
    /\ pc = "idle"
    /\ Dispatch
    /\ UNCHANGED << cfgVars, mainVars, mgrVars, idx, exc, handleVars, initGhost,
                    initState, cleanupVars >>

\* The await of line 261 ends, and execute_tool with it (lines 263-292), the
\* server's answer being one of replies.  ret.fault records whether the
\* invocation met a fault: call_tool raised, or the reply reports one.
CallToolReturns(replies) ==
    \E o \in CallToolOutcomes(call.calls[1].session) :
          CASE o = "ok" ->
                  \E reply \in replies :
                     /\ ret' = [ kind |-> "returned",
                                 value |-> EncodeResult(ReplyOutcome(reply)),
                                 fault |-> reply.isError,
                                 reply |-> reply ]
                     /\ pc' = "idle"
            [] o = "hang" ->
                  /\ ret' = [ kind |-> "blocked" ]
                  /\ pc' = "blocked"
            [] OTHER ->
                  /\ ret' = IF ExecuteCatches(o)
                            THEN [ kind |-> "returned", value |-> EncodeResult(Failure(o)),
                                   fault |-> TRUE ]
                            ELSE [ kind |-> "raised", exc |-> o ]
                  /\ pc' = "idle"

\* The server answers with text content.
CallToolEnds ==
    /\ pc = "call_tool"
    /\ CallToolReturns(Replies)
    /\ UNCHANGED << cfgVars, mainVars, mgrVars, idx, exc, handleVars, initGhost, initState,
                    cleanupVars, call >>

\* The server answers with a reply of any shape.
CallToolEndsAnyShape ==
    /\ pc = "call_tool"
    /\ CallToolReturns(ReplyShapes)
    /\ UNCHANGED << cfgVars, mainVars, mgrVars, idx, exc, handleVars, initGhost, initState,
                    cleanupVars, call >>

\* ------------------------------------------------------------- cleanup
\* The keys of a dict in iteration order: insertion order, which with
\* initialize_all_servers as the only writer is the configuration's order.
DictOrder(d) ==
    LET first == SelectSeq([ i \in 1..Len(config) |-> i ],
                           LAMBDA i : /\ config[i] \in DOMAIN d
                                     /\ \A j \in 1..(i - 1) : config[j] # config[i])
    IN  [ k \in 1..Len(first) |-> config[first[k]] ]

\* What __aexit__ may do during cleanup: return, raise, or be interrupted or
\* cancelled.  On a context that was exited before, it changes nothing.
TeardownOutcomes == { "ok", "Exception", "KeyboardInterrupt" }
Teardown(state, o) == IF state = "open" THEN AfterExit(o) ELSE state

\* except BaseException: pass (lines 306-307, 316-318).
CleanupCatchesExceptionOnly(e) == IsInstance(e, "Exception")
CleanupCatchesNothing(e) == FALSE
CleanupCatches(e) == IsInstance(e, "BaseException")

\* The sessions cleanup closes (line 303) and the transports (line 312).
SessionsToCloseNone == << >>
SessionsToClose == DictOrder(sessions)
TransportsToClose == DictOrder(transports)

\* cleanup is called: what the call does to the manager.
CleanupCalled ==
    /\ pc = "idle"
    /\ cleanupCalls' = IF cleanupCalls < 2 THEN cleanupCalls + 1 ELSE cleanupCalls
    /\ cleanupResult' = "running"
    /\ tdLog' = << >>
    /\ UNCHANGED tdRaised
    /\ cpos' = 1
    /\ pc' = "close_sessions"
    /\ call' = NoCall
    /\ ret' = NoRet
    /\ UNCHANGED << cfgVars, mgrVars, idx, exc, handleVars, initGhost, initState >>

\* cleanup is called on the manager.
CleanupStart ==
    /\ CleanupCalled
    /\ UNCHANGED mainVars

\* An exception no handler of cleanup catches leaves cleanup.
CleanupRaises ==
    /\ cleanupResult' = "raised"
    /\ pc' = "idle"
    /\ cpos' = 0

\* One iteration of the loop of lines 303-307.
CloseSession ==
    /\ pc = "close_sessions"
    /\ cpos <= Len(SessionsToClose)
    /\ LET session == sessions[SessionsToClose[cpos]]
       IN  \E o \in TeardownOutcomes :
              /\ tdLog' = Append(tdLog, << "session", session >>)
              /\ sstate' = [sstate EXCEPT ![session] = Teardown(@, o)]
              /\ tdRaised' = (tdRaised \/ (o # "ok" /\ sstate[session] = "open"))
              /\ IF o = "ok" \/ CleanupCatches(o)
                 THEN /\ cpos' = cpos + 1
                      /\ UNCHANGED << pc, cleanupResult >>
                 ELSE CleanupRaises
    /\ UNCHANGED << cfgVars, mainVars, mgrVars, idx, exc, tstate, initGhost, initState,
                    cleanupCalls, execVars >>

\* The first loop is over: if not self.transports: return (lines 309-310).
SessionsClosed ==
    /\ pc = "close_sessions"
    /\ cpos > Len(SessionsToClose)
    /\ IF DOMAIN transports = {}
       THEN /\ cleanupResult' = "returned"
            /\ pc' = "idle"
            /\ cpos' = 0
       ELSE /\ pc' = "close_transports"
            /\ cpos' = 1
            /\ UNCHANGED cleanupResult
    /\ UNCHANGED << cfgVars, mainVars, mgrVars, idx, exc, handleVars, initGhost, initState,
                    cleanupCalls, tdLog, tdRaised, execVars >>

\* One iteration of the loop of lines 312-318.
CloseTransport ==
    /\ pc = "close_transports"
    /\ cpos <= Len(TransportsToClose)
    /\ LET transport == transports[TransportsToClose[cpos]]
       IN  \E o \in TeardownOutcomes :
              /\ tdLog' = Append(tdLog, << "transport", transport >>)
              /\ tstate' = [tstate EXCEPT ![transport] = Teardown(@, o)]
              /\ tdRaised' = (tdRaised \/ (o # "ok" /\ tstate[transport] = "open"))
              /\ IF o = "ok" \/ CleanupCatches(o)
                 THEN /\ cpos' = cpos + 1
                      /\ UNCHANGED << pc, cleanupResult >>
                 ELSE CleanupRaises
    /\ UNCHANGED << cfgVars, mainVars, mgrVars, idx, exc, sstate, initGhost, initState,
                    cleanupCalls, execVars >>

\* The second loop is over: cleanup returns.
TransportsClosed ==
    /\ pc = "close_transports"
    /\ cpos > Len(TransportsToClose)
    /\ cleanupResult' = "returned"
    /\ pc' = "idle"
    /\ cpos' = 0
    /\ UNCHANGED << cfgVars, mainVars, mgrVars, idx, exc, handleVars, initGhost, initState,
                    cleanupCalls, tdLog, tdRaised, execVars >>

\* ------------------------------------------------------------- create_tool_library_with_search
\* The methods the function is called with; main passes "regex" or "bm25"
\* (the choices of --method, line 507).
SearchMethods == { "regex", "bm25", "other" }
MainMethods == { "regex", "bm25" }

\* The search tool of lines 331-340.
SearchToolRegexOnly(search_method) ==
    [ type |-> "tool_search_tool_regex_20251119",
      name |-> << "tool_search_tool_regex" >> ]
SearchTool(search_method) ==
    IF search_method = "regex"
    THEN [ type |-> "tool_search_tool_regex_20251119",
           name |-> << "tool_search_tool_regex" >> ]
    ELSE [ type |-> "tool_search_tool_bm25_20251119",
           name |-> << "tool_search_tool_bm25" >> ]

\* self.all_tools after the call: [search_tool] + self.all_tools (line 343)
\* builds a new list.
AllToolsAfterLibraryInPlace(search_tool) == << search_tool >> \o all_tools
AllToolsAfterLibrary(search_tool) == all_tools

\* create_tool_library_with_search(search_method) (lines 320-343).
Library(search_method) ==
    LET search_tool == SearchTool(search_method)
    IN  /\ call' = [ kind |-> "create_tool_library", method |-> search_method ]
        /\ ret' = [ kind |-> "returned", value |-> << search_tool >> \o all_tools ]
        /\ all_tools' = AllToolsAfterLibrary(search_tool)

\* create_tool_library_with_search is called on the manager.
CreateToolLibrary ==
    /\ pc = "idle"
    /\ \E search_method \in SearchMethods : Library(search_method)
    /\ UNCHANGED << cfgVars, mainVars, sessions, transports, tool_to_server, pc, idx,
                    exc, handleVars, initGhost, initState, cleanupVars >>

\* ------------------------------------------------------------- main
\* Everything of the manager but the last call.
managerVars == << cfgVars, mgrVars, pc, idx, exc, handleVars, initGhost, initState,
                 cleanupVars >>

\* len(mcp_manager.all_tools) == 0 (line 534).
NoToolsNever == FALSE
NoTools == Len(all_tools) = 0

\* What getting the query may give (lines 539-551): a query, the empty
\* string, or an exception of input().
QueryOutcomes == { "query", "empty", "KeyboardInterrupt" }

\* Where main goes on when its try block (lines 530-559) is left, by a return,
\* by its end or by an exception: to the finally clause (line 561).
LeaveTryReturnSkipsFinally(how) ==
    IF how \in { "no_tools", "no_query" } THEN "done" ELSE "finally"
LeaveTry(how) == "finally"

\* initialize_all_servers has returned to main (lines 532-551): without tools
\* main reports it and returns; otherwise it gets the query and, unless the
\* query is empty, runs the conversation.
MainAfterInitialize ==
    /\ mpc = "try"
    /\ pc = "idle"
    /\ initState = "returned"
    /\ IF NoTools
       THEN /\ mainOut' = "no_tools"
            /\ mpc' = LeaveTry("no_tools")
       ELSE \E o \in QueryOutcomes :
               CASE o = "query" ->
                       /\ mpc' = "conversation"
                       /\ UNCHANGED mainOut
                 [] o = "empty" ->
                       /\ mainOut' = "no_query"
                       /\ mpc' = LeaveTry("no_query")
                 [] OTHER ->
                       /\ mainOut' = "raised"
                       /\ mpc' = LeaveTry("raised")
    /\ UNCHANGED << managerVars, execVars, max_turns, turn, blocks, apiRequests, convVars >>

\* initialize_all_servers raised: the exception goes through main's finally.
MainInitializeRaised ==
    /\ mpc = "try"
    /\ pc = "idle"
    /\ initState = "raised"
    /\ mainOut' = "raised"
    /\ mpc' = LeaveTry("raised")
    /\ UNCHANGED << managerVars, execVars, max_turns, turn, blocks, apiRequests, convVars >>

\* The content blocks of a response (lines 437-467): text, or tool_use with
\* the name of a built-in search tool or with another name; OtherTool stands
\* for any other name, drawn when execute_tool is called.  The id of a block
\* is its position in the content.  Of a response, its number of blocks is
\* drawn when it arrives and each block when the loop of line 437 reaches it.
OtherTool == << "*" >>
ResponseBlocks ==
    { [ type |-> "text" ] }
    \cup { [ type |-> "tool_use", name |-> n ] :
           n \in { SearchTool(m).name : m \in MainMethods } \cup { OtherTool } }

\* tool_name in ["tool_search_tool_regex", "tool_search_tool_bm25"] (line 447).
IsSearchToolRegexOnly(tool_name) == tool_name = << "tool_search_tool_regex" >>
IsSearchTool(tool_name) ==
    tool_name \in { << "tool_search_tool_regex" >>, << "tool_search_tool_bm25" >> }

\* The empty string, as the content of a tool_result (line 452).
EmptyContent == [ enc |-> "none", data |-> << >> ]

\* {"type": "tool_result", "tool_use_id": ..., "content": ...} (lines 449-453,
\* 463-467).
ToolResult(tool_use_id, content) ==
    [ type |-> "tool_result", tool_use_id |-> tool_use_id, content |-> content ]

\* The position in response.content of the block reached last.
BlockId == Len(response)

\* The string execute_tool returned, as the content of a tool_result (line
\* 466): what it says is in ret; its encoding is kept.
ResultContent(result) == [ enc |-> result.enc, data |-> << "result" >> ]

\* run_mcp_tool_search_conversation is left, by its end or by an exception:
\* its locals are gone.
LocalsGone ==
    /\ response' = << >>
    /\ tool_results' = << >>
    /\ executed' = << >>
    /\ lastMsg' = [ role |-> "none" ]

\* run_mcp_tool_search_conversation is called (lines 554-559) and builds its
\* tools and messages (lines 361-375).
ConversationStart ==
    /\ mpc = "conversation"
    /\ \E search_method \in MainMethods : Library(search_method)
    /\ \E n \in 0..MaxTurns : max_turns' = n
    /\ turn' = 0
    /\ mpc' = "turn"
    /\ lastMsg' = [ role |-> "user", of |-> "query" ]
    /\ UNCHANGED << cfgVars, sessions, transports, tool_to_server, pc, idx, exc,
                    handleVars, initGhost, initState, cleanupVars, blocks,
                    apiRequests, mainOut, response, tool_results, executed,
                    lastOutcome >>

\* What claude_client.messages.create may do (lines 380-400, 427-474): raise,
\* or answer without content, or with a stop reason.
ApiOutcomes ==
    { "Exception", "KeyboardInterrupt", "no_content", "end_turn", "tool_use", "other" }

\* One pass of the loop of line 377 up to the handling of the response.
ConversationRequest ==
    /\ mpc = "turn"
    /\ turn < max_turns
    /\ apiRequests' = apiRequests + 1
    /\ \E o \in ApiOutcomes :
          /\ lastOutcome' = o
          /\ CASE o = "tool_use" ->
                  /\ \E n \in 1..MaxBlocks : blocks' = n
                  /\ response' = << >>
                  /\ lastMsg' = [ role |-> "assistant", of |-> "response" ]
                  /\ tool_results' = << >>
                  /\ executed' = << >>
                  /\ mpc' = "blocks"
                  /\ UNCHANGED mainOut
            [] o = "KeyboardInterrupt" ->
                  /\ mainOut' = "raised"
                  /\ mpc' = LeaveTry("raised")
                  /\ LocalsGone
                  /\ UNCHANGED blocks
            [] OTHER ->
                  /\ mainOut' = "conversed"
                  /\ mpc' = LeaveTry("conversed")
                  /\ LocalsGone
                  /\ UNCHANGED blocks
    /\ UNCHANGED << managerVars, execVars, max_turns, turn >>

\* The loop of line 377 is exhausted; the summary is printed (lines 476-485).
ConversationLoopEnds ==
    /\ mpc = "turn"
    /\ turn >= max_turns
    /\ mainOut' = "conversed"
    /\ mpc' = LeaveTry("conversed")
    /\ LocalsGone
    /\ UNCHANGED << managerVars, execVars, max_turns, turn, blocks, apiRequests,
                    lastOutcome >>

\* A text block, or a tool_use block of a built-in search tool, which gets an
\* empty result (lines 438-453).
ConversationBlock ==
    /\ mpc = "blocks"
    /\ blocks > 0
    /\ \E block \in ResponseBlocks :
          /\ response' = Append(response, block)
          /\ \/ /\ block.type = "text"
                /\ UNCHANGED tool_results
             \/ /\ block.type = "tool_use"
                /\ IsSearchTool(block.name)
                /\ tool_results' =
                      Append(tool_results, ToolResult(Len(response) + 1, EmptyContent))
    /\ blocks' = blocks - 1
    /\ UNCHANGED << managerVars, execVars, mpc, max_turns, turn, apiRequests, mainOut,
                    executed, lastMsg, lastOutcome >>

\* A tool_use block of another tool: execute_tool is called (line 459).
ConversationExecute ==
    /\ mpc = "blocks"
    /\ blocks > 0
    /\ pc = "idle"
    /\ \E block \in ResponseBlocks :
          /\ block.type = "tool_use"
          /\ ~ IsSearchTool(block.name)
          /\ response' = Append(response, block)
    /\ Dispatch
    /\ executed' = Append(executed, Len(response) + 1)
    /\ mpc' = "executing"
    /\ UNCHANGED << cfgVars, mgrVars, idx, exc, handleVars, initGhost, initState,
                    cleanupVars, max_turns, turn, blocks, apiRequests, mainOut,
                    tool_results, lastMsg, lastOutcome >>

\* execute_tool is back: its result is appended (lines 461-467), or its
\* exception leaves the conversation.  The call is over.
ConversationToolResult ==
    /\ mpc = "executing"
    /\ pc = "idle"
    /\ call' = NoCall
    /\ ret' = NoRet
    /\ IF ret.kind = "returned"
       THEN /\ tool_results' =
                  Append(tool_results, ToolResult(BlockId, ResultContent(ret.value)))
            /\ blocks' = blocks - 1
            /\ mpc' = "blocks"
            /\ UNCHANGED << mainOut, response, executed, lastMsg >>
       ELSE /\ mainOut' = "raised"
            /\ mpc' = LeaveTry("raised")
            /\ LocalsGone
            /\ UNCHANGED blocks
    /\ UNCHANGED << managerVars, max_turns, turn, apiRequests, lastOutcome >>

\* All blocks of the response are handled: the results, if any, are appended
\* as a user message (lines 469-470), and the next turn begins.
ConversationNextTurn ==
    /\ mpc = "blocks"
    /\ blocks = 0
    /\ lastMsg' = IF tool_results # << >>
                  THEN [ role |-> "user", of |-> "tool_results", content |-> tool_results ]
                  ELSE lastMsg
    /\ turn' = turn + 1
    /\ mpc' = "turn"
    /\ UNCHANGED << managerVars, execVars, max_turns, blocks, apiRequests, mainOut,
                    response, tool_results, executed, lastOutcome >>

\* finally: await mcp_manager.cleanup() (lines 561-563).  The conversation
\* is over: what was kept of it is dropped.
MainCleanup ==
    /\ mpc = "finally"
    /\ cleanupResult = "none"
    /\ CleanupCalled
    /\ max_turns' = 0
    /\ turn' = 0
    /\ blocks' = 0
    /\ apiRequests' = 0
    /\ lastOutcome' = "none"
    /\ UNCHANGED << mpc, mainOut, response, tool_results, executed, lastMsg >>

\* cleanup is over and main ends (line 564).
MainReturns ==
    /\ mpc = "finally"
    /\ pc = "idle"
    /\ cleanupResult \in { "returned", "raised" }
    /\ mpc' = "done"
    /\ UNCHANGED << managerVars, execVars, max_turns, turn, blocks, apiRequests, mainOut,
                    convVars >>

\* ------------------------------------------------------------- specification
Next ==
    \/ InitializeStart
    \/ ConnectStart
    \/ StdioEnter
    \/ SessionEnter
    \/ Handshake
    \/ TimeoutExit
    \/ ErrorExit
    \/ FetchTools
    \/ InitializeReturns
    \/ CleanupStart
    \/ CloseSession
    \/ SessionsClosed
    \/ CloseTransport
    \/ TransportsClosed

Spec == Init /\ [][Next]_vars

\* The same with execute_tool calls between the other operations.
NextDispatch ==
    \/ Next
    \/ ExecuteTool
    \/ CallToolEnds
    \/ CreateToolLibrary

SpecDispatch == InitDispatch /\ [][NextDispatch]_vars

\* Construction alone, on files with placeholders.
NextLoad == Construct
SpecLoad == InitLoad /\ [][NextLoad]_vars

\* One run of main.
NextMain ==
    \/ InitializeStart
    \/ ConnectStart
    \/ StdioEnter
    \/ SessionEnter
    \/ Handshake
    \/ TimeoutExit
    \/ ErrorExit
    \/ FetchTools
    \/ InitializeReturns
    \/ MainAfterInitialize
    \/ MainInitializeRaised
    \/ ConversationStart
    \/ ConversationRequest
    \/ ConversationLoopEnds
    \/ ConversationBlock
    \/ ConversationExecute
    \/ CallToolEnds
    \/ ConversationToolResult
    \/ ConversationNextTurn
    \/ MainCleanup
    \/ CloseSession
    \/ SessionsClosed
    \/ CloseTransport
    \/ TransportsClosed
    \/ MainReturns

SpecMain == InitMain /\ [][NextMain]_vars

\* Initialization, then execute_tool calls answered with every shape of reply.
NextReply ==
    \/ InitializeStart
    \/ ConnectStart
    \/ StdioEnter
    \/ SessionEnter
    \/ Handshake
    \/ TimeoutExit
    \/ ErrorExit
    \/ FetchTools
    \/ InitializeReturns
    \/ ExecuteTool
    \/ CallToolEndsAnyShape

SpecReply == InitReply /\ [][NextReply]_vars

\* Construction, then initialization, cleanup and manifest calls, on
\* well-formed and malformed files.
NextConfig == Construct \/ Next \/ CreateToolLibrary
SpecConfig == InitConfig /\ [][NextConfig]_vars

\* ------------------------------------------------------------- properties
Elems(seq) == { seq[k] : k \in 1..Len(seq) }

\* The number of all_tools entries an attempt stands for: the tools it
\* reported, when its connect and its listing both succeeded.
Contribution(a) ==
    IF connOut[a] = "ok" /\ listOut[a] = "ok" THEN Len(reported[a]) ELSE 0

RECURSIVE SumContribution(_)
SumContribution(n) == IF n = 0 THEN 0 ELSE SumContribution(n - 1) + Contribution(n)

\* C1: once initialize_all_servers has returned, all_tools has as many
\* entries as the servers whose connect and list_tools both succeeded
\* reported; a server that failed to connect or to list stands for none.
C1_RegistrySize ==
    initState = "returned" => Len(all_tools) = SumContribution(Len(config))

\* C1, its case: initialization returned, with one server that listed two
\* tools and another that connected and failed to list.
C1_Witness ==
    /\ initState = "returned"
    /\ Len(all_tools) = 2
    /\ \E a \in Attempts :
          connOut[a] = "ok" /\ listOut[a] = "failed" /\ registered[a] # << >>

\* C2: two capabilities registered from two different servers never get the
\* same namespaced name (so that no binding written for one server is
\* overwritten by a registration for another).
C2_NamespacingInjective ==
    \A a, b \in Attempts :
       a # b =>
          \A t \in Elems(registered[a]), u \in Elems(registered[b]) :
             Namespaced(config[a], t) # Namespaced(config[b], u)

\* C3: between operations, every name of all_tools is there once and has a
\* binding that names the server and session that reported it and an
\* original name this session listed.
C3_RegistryBindings ==
    pc \in { "idle", "loop" } =>
       \A k \in 1..Len(all_tools) :
          LET n == all_tools[k].name
          IN  /\ \A j \in 1..Len(all_tools) : j # k => all_tools[j].name # n
              /\ n \in DOMAIN tool_to_server
              /\ \E a \in Attempts :
                    /\ listOut[a] = "ok"
                    /\ tool_to_server[n].server = config[a]
                    /\ tool_to_server[n].session = a
                    /\ tool_to_server[n].original_name \in Elems(reported[a])
                    /\ n = Namespaced(config[a], tool_to_server[n].original_name)

\* C4: an execute_tool call with a name that has no binding returns the
\* encoded 'Unknown tool' failure: it does not raise, calls call_tool on no
\* session and leaves sessions, transports, all_tools and tool_to_server as
\* they were.
C4_UnknownTool ==
    [][ ( /\ pc = "idle"
          /\ call' # call
          /\ call'.kind = "execute_tool"
          /\ call'.name \notin DOMAIN tool_to_server )
        => ( /\ ret' = [ kind |-> "returned",
                         value |-> EncodeResult(UnknownTool(call'.name)) ]
             /\ call'.calls = << >>
             /\ pc' = "idle"
             /\ UNCHANGED << sessions, transports, all_tools, tool_to_server >> ) ]_vars

\* C4, its case: some tools are registered, and execute_tool was called with
\* a tool name of a server whose connect timed out.
C4_Witness ==
    /\ call.kind = "execute_tool"
    /\ ret.kind = "returned"
    /\ DOMAIN tool_to_server # {}
    /\ call.name \notin DOMAIN tool_to_server
    /\ \E a \in Attempts :
          connOut[a] = "timeout" /\ call.name = Namespaced(config[a], <<"x">>)

\* cleanup has exited both contexts of the session, and no teardown raised.
ClosedByCleanup(session) ==
    sstate[session] = "closed" /\ tstate[session] = "closed" /\ ~ tdRaised

C6_NothingLeftOpen ==
    /\ cleanupResult # "raised"
    /\ cleanupResult = "returned" =>
          \A a \in Attempts : tstate[a] # "open" /\ sstate[a] # "open"

\* The attempts on whose context of the given kind the last cleanup call
\* called __aexit__.
TornDown(kind) == { tdLog[k][2] : k \in { j \in 1..Len(tdLog) : tdLog[j][1] = kind } }

\* C7: a cleanup call tears down the session handle and the transport of
\* exactly the servers whose connect succeeded, and none of a server whose
\* connect timed out or failed.
C7_TeardownExactlyReady ==
    cleanupResult = "returned" =>
       /\ TornDown("session") = { a \in Attempts : connOut[a] = "ok" }
       /\ TornDown("transport") = { a \in Attempts : connOut[a] = "ok" }

\* C7, its case: cleanup has returned, one server had connected and another
\* had timed out.
C7_Witness ==
    /\ cleanupResult = "returned"
    /\ \E a, b \in Attempts : connOut[a] = "ok" /\ connOut[b] = "timeout"

\* Every teardown a complete cleanup call makes: the sessions in dict order,
\* then the transports in dict order.
AllTeardowns ==
    [ k \in 1..Len(DictOrder(sessions)) |-> << "session", sessions[DictOrder(sessions)[k]] >> ]
    \o [ k \in 1..Len(DictOrder(transports)) |->
            << "transport", transports[DictOrder(transports)[k]] >> ]

\* C8: cleanup never raises and never stops early: whichever teardowns
\* raise, it goes through every session and every transport and returns,
\* also after an interrupted initialize_all_servers.
C8_CleanupCompletes ==
    /\ cleanupResult # "raised"
    /\ cleanupResult = "running" =>
          /\ pc \in { "close_sessions", "close_transports" }
          /\ tdLog = SubSeq(AllTeardowns, 1, Len(tdLog))
          /\ Len(tdLog) = IF pc = "close_sessions" THEN cpos - 1
                          ELSE Len(DictOrder(sessions)) + cpos - 1
    /\ cleanupResult = "returned" => tdLog = AllTeardowns

\* C8, its case: initialize_all_servers was interrupted, a session teardown
\* of the first cleanup call raised, and cleanup has gone on to the
\* transports.
C8_Witness ==
    /\ initState = "raised"
    /\ cleanupCalls = 1
    /\ pc = "close_transports"
    /\ tdRaised
    /\ Len(tdLog) >= 2

\* C9: without a user interrupt initialize_all_servers returns, having
\* called connect_to_server once for every server, whatever became of the
\* servers before it.
C9_EveryServerAttempted ==
    /\ \A a \in Attempts : connectCalls[a] <= 1
    /\ initState = "running" => \A a \in Attempts : a < idx => connectCalls[a] = 1
    /\ initState = "returned" => \A a \in Attempts : connectCalls[a] = 1
    /\ initState = "raised" =>
          \E a \in Attempts : connOut[a] = "interrupted" \/ listOut[a] = "interrupted"

\* C9, its case: the first server timed out, the second failed to list, and
\* initialize_all_servers has returned.
C9_Witness ==
    /\ initState = "returned"
    /\ Len(config) >= 2
    /\ connOut[1] = "timeout"
    /\ connOut[2] = "ok"
    /\ listOut[2] = "failed"

\* C10: a connect_to_server that fails after the transport was created, by
\* timeout or another exception, has torn the transport down when it ends,
\* returns None instead of raising, and leaves the server out of transports
\* and sessions.
C10_FailedConnectTornDown ==
    \A a \in Attempts :
       /\ connOut[a] # "raised"
       /\ connOut[a] \in { "timeout", "failed" } =>
             /\ tstate[a] \in { "none", "closed" }
             /\ config[a] \notin DOMAIN transports
             /\ config[a] \notin DOMAIN sessions

\* C10, its case: a handshake timed out and the transport was torn down.
C10_Witness ==
    \E a \in Attempts : connOut[a] = "timeout" /\ tstate[a] = "closed"

\* C11: a KeyboardInterrupt raised at any point of connect_to_server is never
\* turned into a None result: it leaves connect_to_server and
\* initialize_all_servers (which ends raised, not returned), and no server
\* after the interrupted one is attempted.
C11_InterruptPropagates ==
    \A a \in Attempts :
       /\ connOut[a] # "interrupt_lost"
       /\ connOut[a] = "interrupted" =>
             /\ initState = "raised"
             /\ pc # "loop"
             /\ \A b \in Attempts : b > a =>
                   /\ connectCalls[b] = 0
                   /\ connOut[b] = "none"
                   /\ tstate[b] = "none"

\* A first server interrupted while a second one is still configured.
C11_Witness ==
    /\ Len(config) = 2
    /\ connOut[1] = "interrupted"
    /\ connectCalls[1] = 1
    /\ tstate[1] = "open"

\* C12: a connected server whose listing failed, at list_tools or while the
\* returned tools were converted, contributes nothing: initialize_all_servers
\* appended none of its tools to all_tools and no binding of tool_to_server
\* points to its session, while the session stays recorded in sessions.
C12_FailedListingContributesNothing ==
    \A a \in Attempts :
       ( listOut[a] = "failed" /\ pc \in { "idle", "loop" } ) =>
          /\ config[a] \in DOMAIN sessions
          /\ sessions[config[a]] = a
          /\ Len(all_tools) = SumContribution(IF pc = "loop" THEN idx - 1
                                              ELSE Len(config))
          /\ \A n \in DOMAIN tool_to_server : tool_to_server[n].session # a

\* C13: for every name N = S + "_" + T that the registration of server S wrote
\* for its tool T, execute_tool(N, args) makes exactly one call_tool call: on
\* the session of S, with the original name T and args as given; it calls no
\* other session.
C13_DispatchToRegisteringSession ==
    \A a \in Attempts :
       \A t \in Elems(registered[a]) :
          ( call.kind = "execute_tool" /\ call.name = Namespaced(config[a], t) )
          => call.calls = << [ session |-> a, name |-> t, args |-> call.args ] >>

\* C14: whatever execute_tool returns (unknown name, success, invocation
\* failure) is, before encoding, {success: true, result} or
\* {success: false, error}: success is always there, and error exactly when
\* success is false.
C14_OutcomeShape ==
    ( call.kind = "execute_tool" /\ ret.kind = "returned" ) =>
       LET data == ret.value.data
       IN  IF "success" \notin DOMAIN data THEN FALSE
           ELSE IF data.success THEN DOMAIN data = { "success", "result" }
           ELSE DOMAIN data = { "success", "error" }

\* C15: an invocation that met a fault, call_tool raising or the server's
\* reply reporting one, ends with a returned failure outcome: it is not
\* returned as a success and no exception leaves execute_tool.
C15_FaultIsFailure ==
    ( call.kind = "execute_tool" /\ call.calls # << >> ) =>
       /\ ret.kind # "raised"
       /\ ( ret.kind = "returned" /\ ret.fault ) => ret.value.data.success = FALSE

\* What the configuration's rule makes of a string: a string of the form
\* "${" + VAR + "}" becomes the environment's value of VAR, or the empty
\* string when VAR is not set; any other string stays as it is.
Expected(value) ==
    IF \E v \in LoadStrings : value = <<"$", "{">> \o v \o <<"}">>
    THEN LET v == CHOOSE v \in LoadStrings : value = <<"$", "{">> \o v \o <<"}">>
         IN  IF v \in DOMAIN environ THEN environ[v] ELSE << >>
    ELSE value

\* C16: once the file is loaded, every env value and every argument of every
\* server is what the placeholder rule makes of the file's string (the
\* variable's value, the empty string when it is not set, the string itself
\* when it is no placeholder); the load completed, and the entries have the
\* keys, env names and argument counts of the file.
C16_PlaceholdersSubstituted ==
    pc = "new" =>
       /\ Len(entries) = Len(document)
       /\ \A i \in 1..Len(document) :
             /\ DOMAIN entries[i] = DOMAIN document[i]
             /\ entries[i].name = document[i].name
             /\ entries[i].command = document[i].command
             /\ "env" \in DOMAIN document[i] =>
                   /\ DOMAIN entries[i].env = DOMAIN document[i].env
                   /\ \A k \in DOMAIN document[i].env :
                         entries[i].env[k] = Expected(document[i].env[k])
             /\ "args" \in DOMAIN document[i] =>
                   /\ Len(entries[i].args) = Len(document[i].args)
                   /\ \A j \in 1..Len(document[i].args) :
                         entries[i].args[j] = Expected(document[i].args[j])

\* C16, its case: V is set; the file had ${V} as an argument, the unset ${}
\* as env value and the plain V as another argument, and was loaded.
C16_Witness ==
    /\ pc = "new"
    /\ <<"V">> \in DOMAIN environ
    /\ "env" \in DOMAIN document[1]
    /\ "args" \in DOMAIN document[1]
    /\ document[1].env[<<"K">>] = <<"$", "{", "}">>
    /\ entries[1].env[<<"K">>] = << >>
    /\ document[1].args = << <<"$", "{", "V", "}">>, <<"$", "{", "}">>, <<"V">> >>
    /\ entries[1].args = << <<"v">>, << >>, <<"V">> >>

\* A file that is not well-formed: an entry without 'name' or without
\* 'command', or two entries with the same name.
Malformed(servers) ==
    \/ \E i \in 1..Len(servers) : ~ ({ "name", "command" } \subseteq DOMAIN servers[i])
    \/ \E i, j \in 1..Len(servers) :
          /\ i # j
          /\ "name" \in DOMAIN servers[i]
          /\ "name" \in DOMAIN servers[j]
          /\ servers[i].name = servers[j].name

\* C17: a file that is not well-formed is rejected when the manager is
\* constructed: no manager comes out of the construction, so that no
\* connection is attempted and no transport opened for any of its servers.
C17_MalformedRejected ==
    Malformed(document) =>
       /\ pc = "init"
       /\ initState = "new"
       /\ \A a \in DOMAIN tstate : tstate[a] = "none" /\ connectCalls[a] = 0

\* No server of the configuration is connected.
ZeroConnected == \A a \in Attempts : connOut[a] # "ok"

\* C18: in a run of main in which no server connected, main does not go on
\* to the conversation: once initialize_all_servers has returned it reports
\* that no tools are available and returns; execute_tool is never called and
\* no request is made to the model API.
C18_NoServerNoConversation ==
    ZeroConnected =>
       /\ apiRequests = 0
       /\ call.kind = "none"
       /\ mpc \in { "try", "finally", "done" }
       /\ ( initState = "returned" /\ mpc \in { "finally", "done" } )
             => mainOut = "no_tools"

\* C18, its case: two servers were attempted, one timed out and one failed,
\* and main has ended after its cleanup.
C18_Witness ==
    /\ mpc = "done"
    /\ mainOut = "no_tools"
    /\ Len(config) = 2
    /\ connOut[1] = "timeout"
    /\ connOut[2] = "failed"
    /\ cleanupCalls = 1

\* C19: once initialize_all_servers has returned, no step of execute_tool,
\* create_tool_library_with_search or cleanup, in whatever order and number,
\* changes all_tools or tool_to_server: no entry is added, removed, moved
\* or modified.
C19_RegistryReadOnly ==
    [][ initState = "returned"
        => ( all_tools' = all_tools /\ tool_to_server' = tool_to_server ) ]_vars

\* C19, its case: a registry with two tools and two bindings, after two
\* cleanups followed by an execute_tool or create_tool_library_with_search
\* call that has returned.
C19_Witness ==
    /\ initState = "returned"
    /\ Len(all_tools) = 2
    /\ Cardinality(DOMAIN tool_to_server) = 2
    /\ cleanupCalls = 2
    /\ call.kind \in { "execute_tool", "create_tool_library" }
    /\ ret.kind = "returned"

\* The lifecycle state of the session of attempt a, read off the manager: no
\* connect yet, connect under way, connected with both contexts open,
\* connected and torn down (at least in part), or connect ended without a
\* session.
Life(a) ==
    CASE connOut[a] = "ok" ->
            IF sstate[a] = "open" /\ tstate[a] = "open" THEN "Ready" ELSE "Closed"
      [] connOut[a] = "none" ->
            IF connectCalls[a] = 0 THEN "Disconnected" ELSE "Connecting"
      [] OTHER -> "Failed"

LifeNext(a) == Life(a)'

\* The moves of the lifecycle; Disconnected to Failed is a connect call that
\* fails before its first await.
Forward ==
    { << "Disconnected", "Connecting" >>, << "Disconnected", "Failed" >>,
      << "Connecting", "Ready" >>, << "Connecting", "Failed" >>,
      << "Ready", "Closed" >> }

C22_SessionBeforeTransport ==
    /\ \A j \in 1..Len(tdLog) :
          tdLog[j][1] = "transport" =>
             \E i \in 1..(j - 1) : tdLog[i] = << "session", tdLog[j][2] >>
    /\ cleanupResult \in { "returned", "raised" } =>
          \A a \in Attempts :
             connOut[a] = "ok" =>
                \E i, j \in 1..Len(tdLog) :
                   /\ i < j
                   /\ tdLog[i] = << "session", a >>
                   /\ tdLog[j] = << "transport", a >>

\* C22, its case: two servers had connected; in the first cleanup call a
\* session teardown raised, and the call has gone on to the transports, both
\* still open.
C22_Witness ==
    /\ initState = "returned"
    /\ cleanupCalls = 1
    /\ \A a \in Attempts : connOut[a] = "ok"
    /\ Len(config) = 2
    /\ tdRaised
    /\ pc = "close_transports"
    /\ tdLog = << << "session", 1 >>, << "session", 2 >> >>
    /\ tstate[1] = "open"
    /\ tstate[2] = "open"

\* The names all_tools is to hold after the attempts 1..n: for each attempt
\* in configuration order whose listing succeeded, the namespaced names of
\* the tools it reported, in the order it reported them.
RECURSIVE ExpectedNames(_)
ExpectedNames(n) ==
    IF n = 0 THEN << >>
    ELSE ExpectedNames(n - 1)
         \o ( IF connOut[n] = "ok" /\ listOut[n] = "ok"
              THEN [ j \in 1..Len(reported[n]) |-> config[n] \o <<"_">> \o reported[n][j] ]
              ELSE << >> )

\* C23: the servers are established one after the other in configuration
\* order: when the connect of a server has started, the connect of every
\* server configured before it has ended and, where it gave a session, so
\* has its listing.  And all_tools holds the tools server by server in
\* configuration order, those of one server in the order it reported them.
C23_SequentialInOrder ==
    /\ \A a, b \in Attempts :
          ( a < b /\ connectCalls[b] > 0 ) =>
             /\ connectCalls[a] > 0
             /\ connOut[a] # "none"
             /\ connOut[a] = "ok" => listOut[a] # "none"
    /\ \A a \in Attempts :
          ( connOut[a] = "none" /\ connectCalls[a] > 0 ) => ( idx = a /\ initState = "running" )
    /\ pc \in { "loop", "idle", "close_sessions", "close_transports" } =>
          [ k \in 1..Len(all_tools) |-> all_tools[k].name ] = ExpectedNames(Len(config))

\* C23, its case: initialization has returned, the first server having
\* listed its two tools in one order and the second one one tool.
C23_Witness ==
    /\ initState = "returned"
    /\ Len(config) = 2
    /\ reported[1] = << <<"b", "_", "x">>, <<"x">> >>
    /\ listOut[1] = "ok"
    /\ Len(reported[2]) = 1
    /\ listOut[2] = "ok"
    /\ Len(all_tools) = 3

ExpectedResult(reply) ==
    LET parts == IF reply.hasContent THEN TextParts(reply.content) ELSE << >>
        joined == Join(parts, << "\n" >>)
    IN  IF parts = << >> THEN StrValue(StrReply(reply))
        ELSE IF JsonParses(joined) THEN JsonValue(joined)
        ELSE StrValue(joined)

\* C25: execute_tool tolerates every reply shape of a successful invocation:
\* a reply with no extractable text (no content attribute, or content with
\* no text item, empty content included) gives the stringified whole reply
\* as result; otherwise the joined text is the result, as structured data
\* when it parses as JSON and as the literal text when it does not.
C25_EveryReplyShape ==
    ( call.kind = "execute_tool" /\ ret.kind = "returned" /\ "reply" \in DOMAIN ret ) =>
       /\ ret.value.data.success = TRUE
       /\ ret.value.data.result = ExpectedResult(ret.reply)

\* The handle of the given kind that attempt a entered is one a later cleanup
\* exits: it is the value stored under the server's name.
Recorded(d, a) == config[a] \in DOMAIN d /\ d[config[a]] = a

\* C26: no connect attempt leaks a resource: when a connect_to_server call
\* has ended without success (handshake timeout, another exception, or an
\* interrupt that propagates), the transport and the session handle it
\* entered have been exited, or are recorded for a later cleanup to exit.
C26_NoConnectLeak ==
    \A a \in Attempts :
       connOut[a] \in { "timeout", "failed", "raised", "interrupted" } =>
          /\ tstate[a] = "open" => Recorded(transports, a)
          /\ sstate[a] = "open" => Recorded(sessions, a)

\* C27: once an iteration of the loop of initialize_all_servers is over, and
\* in every later state, sessions and transports have the same keys, these
\* are configured server names, and they are exactly the servers whose
\* connect_to_server returned a session; every entry of tool_to_server binds
\* the session that sessions holds under the entry's server name.
C27_SessionsTransportsAgree ==
    /\ DOMAIN sessions = DOMAIN transports
    /\ DOMAIN sessions \subseteq Elems(config)
    /\ DOMAIN sessions = { config[a] : a \in { b \in Attempts : connOut[b] = "ok" } }
    /\ \A n \in DOMAIN tool_to_server :
          /\ tool_to_server[n].server \in DOMAIN sessions
          /\ sessions[tool_to_server[n].server] = tool_to_server[n].session

\* C27, its case: the loop is over, the first server did not connect, the
\* second did and its tools are bound.
C27_Witness ==
    /\ initState = "returned"
    /\ Len(config) = 2
    /\ connOut[1] \in { "timeout", "failed" }
    /\ connOut[2] = "ok"
    /\ DOMAIN sessions = { config[2] }
    /\ \E n \in DOMAIN tool_to_server : tool_to_server[n].session = 2

\* C28: once main has constructed the manager, cleanup is called exactly
\* once before main finishes, however the try block is left: no tools, empty
\* query, end of the conversation, an exception or interrupt out of
\* initialize_all_servers, an exception out of the conversation.  It is not
\* called before the try block is left.
C28_CleanupExactlyOnce ==
    /\ mpc \in { "try", "conversation", "turn", "blocks", "executing" } => cleanupCalls = 0
    /\ mpc = "finally" => cleanupCalls <= 1
    /\ mpc = "done" =>
          /\ mainOut \in { "no_tools", "no_query", "conversed", "raised" }
          /\ cleanupCalls = 1
          /\ cleanupResult = "returned"

\* C28, its case: main has finished after initialize_all_servers raised with
\* a server connected, and cleanup was called.
C28_Witness ==
    /\ mpc = "done"
    /\ initState = "raised"
    /\ mainOut = "raised"
    /\ \E a \in Attempts : connOut[a] = "ok"
    /\ cleanupCalls = 1

\* The ids of the tool_use blocks of a response content, in block order.
ToolUseIds(content) ==
    SelectSeq([ k \in 1..Len(content) |-> k ], LAMBDA k : content[k].type = "tool_use")

\* Whether the block with the given id names a built-in search tool.
NamesSearchTool(content, id) ==
    content[id].name \in { SearchTool(m).name : m \in MainMethods }

\* C29: when a response with stop reason tool_use has been handled, the
\* message appended last is a user message with exactly one tool_result per
\* tool_use block of the response, in block order and with the block's id;
\* the result of a block naming a built-in search tool is empty and the block
\* was not passed to execute_tool; every other tool_use block was passed to
\* execute_tool exactly once.  (Without any tool_use block nothing is
\* appended.)  At no time has a text block or a search block been passed to
\* execute_tool, or a block twice.
C29_OneResultPerToolUse ==
    /\ \A j \in 1..Len(executed) :
          /\ executed[j] \in 1..Len(response)
          /\ response[executed[j]].type = "tool_use"
          /\ ~ NamesSearchTool(response, executed[j])
          /\ \A i \in 1..Len(executed) : i # j => executed[i] # executed[j]
    /\ ( mpc = "turn" /\ lastOutcome = "tool_use" ) =>
          LET uses == ToolUseIds(response)
          IN  /\ executed = SelectSeq(uses, LAMBDA id : ~ NamesSearchTool(response, id))
              /\ IF uses = << >> THEN lastMsg = [ role |-> "assistant", of |-> "response" ]
                 ELSE /\ lastMsg.role = "user"
                      /\ lastMsg.of = "tool_results"
                      /\ Len(lastMsg.content) = Len(uses)
                      /\ \A j \in 1..Len(uses) :
                            /\ lastMsg.content[j].type = "tool_result"
                            /\ lastMsg.content[j].tool_use_id = uses[j]
                            /\ NamesSearchTool(response, uses[j]) <=>
                                  lastMsg.content[j].content = EmptyContent

\* C29, its case: a response with a search block and a block of another tool
\* was handled and both results were appended, in this order.
C29_Witness ==
    /\ mpc = "turn"
    /\ lastOutcome = "tool_use"
    /\ Len(response) = 2
    /\ response[1] = [ type |-> "tool_use", name |-> << "tool_search_tool_bm25" >> ]
    /\ response[2] = [ type |-> "tool_use", name |-> OtherTool ]
    /\ executed = << 2 >>
    /\ lastMsg.role = "user"
    /\ Len(lastMsg.content) = 2

\* The outcomes of a request at which the conversation stops: end_turn, an
\* API error, a response without content, an unexpected stop reason.
StopOutcomes == { "end_turn", "Exception", "no_content", "other" }

\* C30: run_mcp_tool_search_conversation always terminates: it makes at most
\* max_turns requests to the model API; at the first response with stop
\* reason end_turn, the first API error, the first empty response or the
\* first unexpected stop reason it is over, that request being its last and
\* no execute_tool call following; and while it is not over it is never
\* left without a next step.
C30_ConversationTerminates ==
    /\ apiRequests <= max_turns
    /\ lastOutcome \in StopOutcomes =>
          /\ mpc = "finally"
          /\ apiRequests = turn + 1
          /\ pc = "idle"
          /\ ret.kind \notin { "pending", "blocked" }
    /\ mpc \in { "turn", "blocks", "executing" } => ENABLED NextMain
====================================================================
